---------------------------- MODULE Spec2Model ----------------------------
(***************************************************************************)
(* Model of src/app.py (Monitor Martins Robo): the price normaliser, the   *)
(* product-page extractor, the pricing strategy, the EAN resolver and the  *)
(* three batch endpoints.                                                  *)
(*                                                                         *)
(* Representation.                                                         *)
(*   - A Python str is a tuple of one-character strings, so that strip(),  *)
(*     lower(), re.sub and float() are computed and not assumed.           *)
(*   - A Python dict is a function whose DOMAIN is its key set.            *)
(*   - A price is a number of cents (a float with two decimals).           *)
(*   - None is NoneStr where a str is expected, NoneNum where a float is   *)
(*     expected and NoneDict where a dict is expected.                     *)
(***************************************************************************)
EXTENDS Integers, Sequences, FiniteSets, TLC

VARIABLES
    op,           \* the endpoint being served, "idle" before a request
    inputs,       \* its input sequence: urls, eans or the rows of the CSV
    idx,          \* index of the item the endpoint's loop is at
    out,          \* the result list built so far (out / resultados)
    status,       \* "idle", "running", "returned", "raised" or "http_400"
    pc,           \* control point inside the current item
    cand,         \* find_first_product_url_from_search: index into base_urls
    scrape_url,   \* scrape_product_by_url: its url argument
    scrape_price, \* scrape_product_by_url: its my_price argument
    ret,          \* value returned, or exception raised, by the last call
    pending,      \* what the try block left to do once finally has run
    open_pages,   \* pages got from get_page() and not yet given to close()
    slept,        \* sleep_rl() has run since the last page.goto()
    tried,        \* the fetches of the current find_first... call, in order
    strategy,     \* pricing run: [pc, rec, my_price]
    extraction    \* extraction run: [pc, html, url, data]

orch == <<op, inputs, idx, out, status, pc, cand, scrape_url, scrape_price, ret,
          pending, open_pages, slept, tried>>
vars == <<orch, strategy, extraction>>

(***************************************************************************)
(* Bounds of the model.                                                    *)
(***************************************************************************)
MaxItems == 2
MaxOffers == 3
MaxScripts == 2

(***************************************************************************)
(* Python values.                                                          *)
(***************************************************************************)
NoneStr == <<"<None>">>
NoneNum == 0 - 1
NoneDict == <<>>

Put(d, k, v) == (k :> v) @@ d

\* dict.update(other): the keys of other replace those of d
Update(d, other) == other @@ d

\* dict.get(k) with its default of None given by the caller
Get(d, k, none) == IF k \in DOMAIN d THEN d[k] ELSE none

(***************************************************************************)
(* str helpers.                                                            *)
(***************************************************************************)
UpperChars == <<"A","B","C","D","E","F","G","H","I","J","K","L","M",
                "N","O","P","Q","R","S","T","U","V","W","X","Y","Z">>
LowerChars == <<"a","b","c","d","e","f","g","h","i","j","k","l","m",
                "n","o","p","q","r","s","t","u","v","w","x","y","z">>
DigitChars == <<"0","1","2","3","4","5","6","7","8","9">>

IsSpace(c) == c \in {" ", "\t", "\n"}
IsDigit(c) == \E i \in 1..10 : DigitChars[i] = c
DigitVal(c) == (CHOOSE i \in 1..10 : DigitChars[i] = c) - 1

LowerChar(c) ==
    IF \E i \in 1..26 : UpperChars[i] = c
    THEN LowerChars[CHOOSE i \in 1..26 : UpperChars[i] = c]
    ELSE c

\* str.lower()
Lower(s) == [i \in 1..Len(s) |-> LowerChar(s[i])]

RECURSIVE LStrip(_)
LStrip(s) == IF s # <<>> /\ IsSpace(Head(s)) THEN LStrip(Tail(s)) ELSE s

RECURSIVE RStrip(_)
RStrip(s) ==
    IF s # <<>> /\ IsSpace(s[Len(s)]) THEN RStrip(SubSeq(s, 1, Len(s) - 1)) ELSE s

\* str.strip()
Strip(s) == RStrip(LStrip(s))

\* re.sub(r"\s+", " ", s): every run of whitespace becomes one space
RECURSIVE CollapseSpaces(_)
CollapseSpaces(s) ==
    IF s = <<>> THEN <<>>
    ELSE IF IsSpace(Head(s))
         THEN <<" ">> \o CollapseSpaces(LStrip(s))
         ELSE <<Head(s)>> \o CollapseSpaces(Tail(s))

\* str.replace(a, b) for one-character a; b is a str (possibly empty)
RECURSIVE Replace(_, _, _)
Replace(s, a, b) ==
    IF s = <<>> THEN <<>>
    ELSE (IF Head(s) = a THEN b ELSE <<Head(s)>>) \o Replace(Tail(s), a, b)

\* str.count(a) for one-character a
Count(s, a) == Cardinality({i \in 1..Len(s) : s[i] = a})

\* s.startswith(p)
StartsWith(s, p) == Len(s) >= Len(p) /\ SubSeq(s, 1, Len(p)) = p

RECURSIVE DigitsValue(_)
DigitsValue(s) ==
    IF s = <<>> THEN 0
    ELSE DigitsValue(SubSeq(s, 1, Len(s) - 1)) * 10 + DigitVal(s[Len(s)])

\* float(s), in cents, NoneNum where Python raises ValueError.  The texts
\* of the model hold digits, separators, spaces and plain letters only (no
\* sign, exponent, underscore, "inf" or "nan"), and at most two fraction
\* digits; a text with more has no arm below.
ParseFloat(s0) ==
    LET s == Strip(s0)
        dots == Count(s, ".")
        wellFormed == /\ \A i \in 1..Len(s) : IsDigit(s[i]) \/ s[i] = "."
                      /\ dots <= 1
                      /\ \E i \in 1..Len(s) : IsDigit(s[i])
        dot == IF dots = 1 THEN CHOOSE i \in 1..Len(s) : s[i] = "." ELSE Len(s) + 1
        ip == SubSeq(s, 1, dot - 1)
        fp == SubSeq(s, dot + 1, Len(s))
    IN  CASE ~wellFormed -> NoneNum
          [] wellFormed /\ Len(fp) = 0 -> DigitsValue(ip) * 100
          [] wellFormed /\ Len(fp) = 1 -> DigitsValue(ip) * 100 + DigitsValue(fp) * 10
          [] wellFormed /\ Len(fp) = 2 -> DigitsValue(ip) * 100 + DigitsValue(fp)

normalize(txt) == CollapseSpaces(Lower(Strip(txt)))

clean_price(txt) ==
    IF txt = <<>> THEN NoneNum
    ELSE LET kept == SelectSeq(txt, LAMBDA c : IsDigit(c) \/ c = "," \/ c = ".")
         IN  IF kept = <<>> THEN NoneNum
             ELSE IF Count(kept, ",") = 1 /\ Count(kept, ".") >= 1
                  THEN ParseFloat(Replace(Replace(kept, ".", <<>>), ",", <<".">>))
                  ELSE ParseFloat(Replace(kept, ",", <<".">>))

to_float(v) == ParseFloat(Replace(v, ",", <<".">>))

(***************************************************************************)
(* Configuration (the defaults of the CONFIG block).                       *)
(***************************************************************************)
ALVO_SELLER == <<"f","o","t","o"," ","n","a","s","c","i","m","e","n","t","o">>
\* DELTA_GAP = 0.01, in hundredths
DELTA_GAP == 1

(***************************************************************************)
(* Pricing strategy.                                                       *)
(***************************************************************************)
C_NoOwnPrice == "Sem preco atual informado. Defina seu preco para sugerirmos ajuste."
C_Undercut == "Sugestao: cobrir o mais barato com 1% abaixo."
C_Competitive == "Voce ja esta competitivo (<= 1% do concorrente)."
C_NoSellers == "Nenhum seller encontrado."
C_AlvoPrefix == "Foto Nascimento e o mais barato. "

\* The comment strings are atomic here, written without their accents; a
\* comentario is the pair <<prefix, text>>, prefix "" when nothing was
\* prepended.
Comentario(prefix, text) == <<prefix, text>>

\* round(cheapest_price * (1 - DELTA_GAP), 2): the values the float
\* arithmetic can give.  Off a tie the result is the nearest cent; on a tie
\* (a product ending in exactly half a cent) the binary product lies just
\* below or just above it, so either neighbour is possible
\* (round(0.5 * 0.99, 2) = 0.49, round(2.5 * 0.99, 2) = 2.48).
RoundCents(cheapest_price) ==
    LET n == cheapest_price * (100 - DELTA_GAP)
        q == n \div 100
        r == n % 100
    IN  IF r < 50 THEN {q} ELSE IF r > 50 THEN {q + 1} ELSE {q, q + 1}

calc_suggestion_ge(cheapest_price, my_price, alvo) ==
    IF my_price = NoneNum THEN <<NoneNum, C_NoOwnPrice>>
    ELSE IF my_price >= alvo THEN <<alvo, C_Undercut>>
    ELSE <<my_price, C_Competitive>>

\* calc_suggestion with alvo one of the values of the rounding
calc_suggestion(cheapest_price, my_price, alvo) ==
    IF my_price = NoneNum THEN <<NoneNum, C_NoOwnPrice>>
    ELSE IF my_price > alvo THEN <<alvo, C_Undercut>>
    ELSE <<my_price, C_Competitive>>

RECURSIVE InsertByPrice_unstable(_, _)
InsertByPrice_unstable(sorted, x) ==
    IF sorted = <<>> THEN <<x>>
    ELSE IF x.price <= Head(sorted).price
         THEN <<x>> \o sorted
         ELSE <<Head(sorted)>> \o InsertByPrice_unstable(Tail(sorted), x)

\* sorted(sellers, key=price): a stable insertion sort
RECURSIVE InsertByPrice(_, _)
InsertByPrice(sorted, x) ==
    IF sorted = <<>> THEN <<x>>
    ELSE IF x.price < Head(sorted).price
         THEN <<x>> \o sorted
         ELSE <<Head(sorted)>> \o InsertByPrice(Tail(sorted), x)

RECURSIVE SortByPrice(_)
SortByPrice(sellers) ==
    IF sellers = <<>> THEN <<>>
    ELSE InsertByPrice(SortByPrice(SubSeq(sellers, 1, Len(sellers) - 1)),
                       sellers[Len(sellers)])

\* the reference-competitor sentence left out when there is no own price
enrich_with_strategy_plain_without_price(rec, my_price) ==
    LET sellers == IF Get(rec, "sellers", <<>>) # <<>>
                   THEN SortByPrice(rec["sellers"]) ELSE <<>>
    IN  IF sellers = <<>>
        THEN {Put(Put(Put(rec, "mais_barato", NoneDict), "sugestao_preco", NoneNum),
                  "comentario", Comentario("", C_NoSellers))}
        ELSE LET cheapest == sellers[1]
                 cheapest_seller_norm == normalize(cheapest.seller)
             IN  { LET sc == calc_suggestion(cheapest.price, my_price, alvo)
                       prefix == IF cheapest_seller_norm = ALVO_SELLER /\ my_price # NoneNum
                                 THEN C_AlvoPrefix ELSE ""
                   IN  Put(Put(Put(rec, "mais_barato", cheapest), "sugestao_preco", sc[1]),
                           "comentario", Comentario(prefix, sc[2]))
                   : alvo \in RoundCents(cheapest.price) }

\* enrich_with_strategy: the set of records it can return
enrich_with_strategy(rec, my_price) ==
    LET sellers == IF Get(rec, "sellers", <<>>) # <<>>
                   THEN SortByPrice(rec["sellers"]) ELSE <<>>
    IN  IF sellers = <<>>
        THEN {Put(Put(Put(rec, "mais_barato", NoneDict), "sugestao_preco", NoneNum),
                  "comentario", Comentario("", C_NoSellers))}
        ELSE LET cheapest == sellers[1]
                 cheapest_seller_norm == normalize(cheapest.seller)
             IN  { LET sc == calc_suggestion(cheapest.price, my_price, alvo)
                       prefix == IF cheapest_seller_norm = ALVO_SELLER
                                 THEN C_AlvoPrefix ELSE ""
                   IN  Put(Put(Put(rec, "mais_barato", cheapest), "sugestao_preco", sc[1]),
                           "comentario", Comentario(prefix, sc[2]))
                   : alvo \in RoundCents(cheapest.price) }

S_Desconhecido == <<"D","e","s","c","o","n","h","e","c","i","d","o">>
S_Martins == <<"M","a","r","t","i","n","s">>
(***************************************************************************)
(* Product-page extraction.                                                *)
(*                                                                         *)
(* A rendered document is the record of what the selectors of              *)
(* parse_product_detail find in it:                                        *)
(*   h1            first <h1>: NoEl or [text, title_class]                 *)
(*   testid        first [data-testid='product-title']: NoEl or [text]     *)
(*   scripts       the <script type="application/ld+json"> tags, in order  *)
(*   strings       the text nodes, in order                                *)
(*   seller_cards  the .seller-card elements, in order                     *)
(*   seller_like   the [data-seller], [class*='seller'] elements           *)
(*   page_price    first .price, .sales-price, [class*='price'] element    *)
(* An element is NoEl (select_one found none) or a record with its text.   *)
(***************************************************************************)
NoEl == [none |-> TRUE]
El(text) == [text |-> text]

\* a or b, for selected elements (a bs4 Tag is always truthy)
OrEl(a, b) == IF a # NoEl THEN a ELSE b

\* el.get_text(strip=True) of an element with one text node
get_text(el) == Strip(el.text)

\* truthiness of a str or None
Truthy(s) == s # NoneStr /\ s # <<>>
\* a or b, for values that are str or None
OrStr(a, b) == IF Truthy(a) THEN a ELSE b

\* A JSON-LD script tag: [kind |-> "bad"] (json.loads raises),
\* [kind |-> "dict", item |-> d] or [kind |-> "list", items |-> seq]; an
\* item is [isdict |-> BOOLEAN, d |-> dict].
IsProductOrOffer(item) ==
    item.isdict /\ Get(item.d, "@type", "") \in {"Product", "Offer"}

RECURSIVE UpdateAll_first(_, _)
UpdateAll_first(data, items) ==
    IF items = <<>> THEN data
    ELSE UpdateAll_first(IF IsProductOrOffer(Head(items))
                         THEN Update(Head(items).d, data) ELSE data,
                         Tail(items))

\* the loop over the items of one parsed list
RECURSIVE UpdateAll(_, _)
UpdateAll(data, items) ==
    IF items = <<>> THEN data
    ELSE UpdateAll(IF IsProductOrOffer(Head(items))
                   THEN Update(data, Head(items).d) ELSE data,
                   Tail(items))

RECURSIVE JsonLdLoop_first(_, _)
JsonLdLoop_first(data, scripts) ==
    IF scripts = <<>> THEN data
    ELSE LET tag == Head(scripts)
             next == CASE tag.kind = "bad" -> data
                       [] tag.kind = "list" -> UpdateAll_first(data, tag.items)
                       [] tag.kind = "dict" -> UpdateAll_first(data, <<tag.item>>)
         IN  JsonLdLoop_first(next, Tail(scripts))

\* the loop over the script tags
RECURSIVE JsonLdLoop(_, _)
JsonLdLoop(data, scripts) ==
    IF scripts = <<>> THEN data
    ELSE LET tag == Head(scripts)
             next == CASE tag.kind = "bad" -> data
                       [] tag.kind = "list" -> UpdateAll(data, tag.items)
                       [] tag.kind = "dict" ->
                            IF IsProductOrOffer(tag.item)
                            THEN Update(data, tag.item.d) ELSE data
         IN  JsonLdLoop(next, Tail(scripts))

extract_from_json_ld_first(soup) == JsonLdLoop_first(<<>>, soup.scripts)

extract_from_json_ld(soup) == JsonLdLoop(<<>>, soup.scripts)

IsWordChar(c) ==
    \/ IsDigit(c)
    \/ c = "_"
    \/ \E i \in 1..26 : UpperChars[i] = c \/ LowerChars[i] = c

\* re.compile(r"\bEAN\b", re.IGNORECASE).search(t)
MatchesEAN(t) ==
    \E i \in 1..(Len(t) - 2) :
        /\ Lower(SubSeq(t, i, i + 2)) = <<"e","a","n">>
        /\ (i = 1 \/ ~IsWordChar(t[i - 1]))
        /\ (i + 3 > Len(t) \/ ~IsWordChar(t[i + 3]))

AllDigits(t, i, j) == \A k \in i..j : IsDigit(t[k])

\* re.findall(r"(\d{8,14})", t): whether there is a match, and the first
HasDigitRun(t) == \E i \in 1..(Len(t) - 7) : AllDigits(t, i, i + 7)
FirstDigitRun(t) ==
    LET i == CHOOSE a \in 1..(Len(t) - 7) :
                 /\ AllDigits(t, a, a + 7)
                 /\ \A b \in 1..(a - 1) : ~AllDigits(t, b, b + 7)
        j == CHOOSE e \in (i + 7)..Len(t) :
                 /\ AllDigits(t, i, e)
                 /\ (e = Len(t) \/ e - i + 1 = 14 \/ ~IsDigit(t[e + 1]))
                 /\ e - i + 1 <= 14
    IN  SubSeq(t, i, j)

\* step 3: the first EAN-labelled text node that holds 8 to 14 digits
RECURSIVE EanFromText(_)
EanFromText(possible) ==
    IF possible = <<>> THEN NoneStr
    ELSE IF HasDigitRun(Head(possible)) THEN FirstDigitRun(Head(possible))
    ELSE EanFromText(Tail(possible))

\* the loop over the seller blocks; a block is the record of what the
\* three name selectors and the three price selectors find in it
RECURSIVE SellersOf(_)
SellersOf(blocks) ==
    IF blocks = <<>> THEN <<>>
    ELSE LET block == Head(blocks)
             seller_name_el == OrEl(block.seller_name,
                                    OrEl(block.data_seller_name, block.class_seller))
             price_el == OrEl(block.seller_price,
                              OrEl(block.data_seller_price, block.class_price))
             seller_name == IF seller_name_el # NoEl THEN get_text(seller_name_el)
                            ELSE S_Desconhecido
             price_value == IF price_el # NoEl THEN clean_price(get_text(price_el))
                            ELSE NoneNum
         IN  (IF price_value # NoneNum
              THEN <<[seller |-> seller_name, price |-> price_value]>> ELSE <<>>)
             \o SellersOf(Tail(blocks))

\* url.split("/")[-1]
RECURSIVE LastSegment(_)
LastSegment(url) ==
    IF \E i \in 1..Len(url) : url[i] = "/"
    THEN LastSegment(Tail(url))
    ELSE url

TitleEl(soup) ==
    OrEl(soup.h1, OrEl(soup.testid,
         IF soup.h1 # NoEl /\ soup.h1.title_class THEN soup.h1 ELSE NoEl))

\* the structured-data name first, the heading only without one
title_of_ld_first(soup) ==
    LET json_ld == extract_from_json_ld(soup)
        produto1 == IF json_ld # <<>> THEN Get(json_ld, "name", NoneStr) ELSE NoneStr
    IN  IF ~Truthy(produto1) /\ TitleEl(soup) # NoEl
        THEN get_text(TitleEl(soup)) ELSE produto1

\* steps 1 and 2 for data["produto"]: the heading first, the JSON-LD name
\* only where the heading gave nothing
title_of(soup) ==
    LET title_el == TitleEl(soup)
        produto1 == IF title_el # NoEl THEN get_text(title_el) ELSE NoneStr
        json_ld == extract_from_json_ld(soup)
    IN  IF json_ld # <<>> /\ ~Truthy(produto1)
        THEN Get(json_ld, "name", NoneStr) ELSE produto1

parse_product_detail(soup, url) ==
    LET \* 1) title, 2) JSON-LD
        produto == title_of(soup)
        json_ld == extract_from_json_ld(soup)
        ean2 == IF json_ld # <<>>
                THEN OrStr(Get(json_ld, "gtin13", NoneStr),
                           OrStr(Get(json_ld, "gtin14", NoneStr),
                                 Get(json_ld, "sku", NoneStr)))
                ELSE NoneStr
        \* 3) EAN in the text
        possible == SelectSeq(soup.strings, MatchesEAN)
        ean3 == EanFromText(possible)
        ean == IF ~Truthy(ean2) /\ ean3 # NoneStr THEN ean3 ELSE ean2
        \* 4) sellers and prices
        seller_blocks == IF soup.seller_cards # <<>> THEN soup.seller_cards
                         ELSE soup.seller_like
        sellers4 == SellersOf(seller_blocks)
        \* fallback: one price for the page
        price_value == IF soup.page_price # NoEl
                       THEN clean_price(get_text(soup.page_price)) ELSE NoneNum
        sellers == IF sellers4 = <<>> /\ price_value # NoneNum
                   THEN <<[seller |-> S_Martins, price |-> price_value]>>
                   ELSE sellers4
    IN  [produto |-> produto, ean |-> ean, sellers |-> sellers,
         sku |-> LastSegment(url), url |-> url]

(***************************************************************************)
(* The state of the service before a request.                              *)
(***************************************************************************)
OrchIdle ==
    /\ op = "idle"
    /\ inputs = <<>>
    /\ idx = 1
    /\ out = <<>>
    /\ status = "idle"
    /\ pc = "idle"
    /\ cand = 1
    /\ scrape_url = NoneStr
    /\ scrape_price = NoneNum
    /\ ret = [kind |-> "none"]
    /\ pending = [kind |-> "none"]
    /\ open_pages = 0
    /\ slept = FALSE
    /\ tried = <<>>

(***************************************************************************)
(* SpecPricing: enrich_with_strategy applied to bounded inputs.            *)
(***************************************************************************)
S_FotoNascimento == <<"F","o","t","o"," "," ","N","A","S","C","I","M","E","N","T","O"," ">>
S_LojaB == <<"L","o","j","a"," ","B">>

SellerNames == {S_FotoNascimento, S_LojaB}
OfferPrices == {50, 9000, 10000}
OwnPrices == {NoneNum, 49, 50, 8500, 8910, 9500}
Offers == [seller : SellerNames, price : OfferPrices]

SeqsUpTo(S, n) == UNION {[1..k -> S] : k \in 0..n}

PricingInit ==
    /\ strategy \in [pc : {"in"},
                     rec : {[sellers |-> s] : s \in SeqsUpTo(Offers, MaxOffers)},
                     my_price : OwnPrices]
    /\ extraction = [pc |-> "off"]
    /\ OrchIdle

Enrich ==
    /\ strategy.pc = "in"
    /\ \E r \in enrich_with_strategy(strategy.rec, strategy.my_price) :
          strategy' = [strategy EXCEPT !.pc = "out", !.rec = r]
    /\ UNCHANGED <<orch, extraction>>

PricingNext == Enrich

SpecPricing == PricingInit /\ [][PricingNext]_vars

(***************************************************************************)
(* SpecExtract: extract_from_json_ld and parse_product_detail applied to   *)
(* bounded documents.                                                      *)
(***************************************************************************)
S_N1 == <<"C","a","m","e","r","a"," ","X">>
S_N2 == <<"L","e","n","t","e"," ","Y">>
S_N3 == <<"O","f","e","r","t","a"," ","Z">>
S_N9 == <<"O","u","t","r","o">>
S_G1 == <<"7","8","9","1","2","3","4","5","6","7","8","9","0">>
S_G4 == <<"1","7","8","9","1","2","3","4","5","6","7","8","9","7">>
S_K1 == <<"S","K","U","-","1">>
S_K2 == <<"S","K","U","-","2">>
S_T1 == <<" "," ","T","i","t","u","l","o"," ","H","1"," ">>
S_T2 == <<"T","i","t","u","l","o"," ","T","e","s","t","I","d">>
S_Blank == <<" "," ">>
S_R45 == <<"R","$"," ","4","5",",","0","0">>
S_1234 == <<" ","R","$"," ","1",".","2","3","4",",","5","6">>
S_1990 == <<"1","9",",","9","0">>
S_Abc == <<"a","b","c">>
S_Oceano == <<"o","c","e","a","n","o"," ","1","2","3","4","5","6","7","8">>
S_EanLabel == <<"C","o","d","i","g","o"," ","E","A","N">>
S_EanShort == <<"e","a","n",":"," ","1","2","3","4","5","6","7">>
S_EanLong == <<"E","A","N"," ","7","8","9","1","2","3","4","5","6","7","8","9","0","1","2","3","4","5"," ","/"," ","9","9","9","9","9","9","9","9">>
S_Url1 == <<"h","t","t","p","s",":","/","/","w","w","w",".","m","a","r","t","i","n","s","a","t","a","c","a","d","o",".","c","o","m",".","b","r","/","p","r","o","d","u","t","o","/","1","2","3","4","5">>
S_Url2 == <<"h","t","t","p","s",":","/","/","w","w","w",".","m","a","r","t","i","n","s","a","t","a","c","a","d","o",".","c","o","m",".","b","r","/","p","r","o","d","u","t","o","/","a","b","c","/">>

Dict(d) == [isdict |-> TRUE, d |-> d]
NonDict == [isdict |-> FALSE, d |-> <<>>]

LdP1 == Dict(("@type" :> "Product") @@ ("name" :> S_N1) @@ ("gtin13" :> S_G1))
LdP2 == Dict(("@type" :> "Product") @@ ("name" :> S_N2) @@ ("sku" :> S_K2))
LdO1 == Dict(("@type" :> "Offer") @@ ("name" :> S_N3) @@ ("gtin14" :> S_G4))
LdO2 == Dict(("@type" :> "Offer") @@ ("sku" :> S_K1))
LdThing == Dict(("@type" :> "Thing") @@ ("name" :> S_N9))
LdNoType == Dict(("name" :> S_N9))

LdScripts ==
    { [kind |-> "bad"],
      [kind |-> "dict", item |-> LdP1],
      [kind |-> "dict", item |-> LdP2],
      [kind |-> "dict", item |-> LdO2],
      [kind |-> "dict", item |-> LdThing],
      [kind |-> "list", items |-> <<LdO1, LdP1>>],
      [kind |-> "list", items |-> <<NonDict, LdNoType, LdP2>>] }

Headings ==
    { [h1 |-> NoEl, testid |-> NoEl],
      [h1 |-> NoEl, testid |-> El(S_T2)],
      [h1 |-> [text |-> S_T1, title_class |-> FALSE], testid |-> El(S_T2)],
      [h1 |-> [text |-> S_Blank, title_class |-> TRUE], testid |-> NoEl] }

Block(n1, n2, n3, p1, p2, p3) ==
    [seller_name |-> n1, data_seller_name |-> n2, class_seller |-> n3,
     seller_price |-> p1, data_seller_price |-> p2, class_price |-> p3]

SellerParts ==
    { [seller_cards |-> <<>>, seller_like |-> <<>>, page_price |-> NoEl],
      [seller_cards |-> <<>>, seller_like |-> <<>>, page_price |-> El(S_R45)],
      [seller_cards |-> <<Block(El(S_FotoNascimento), NoEl, El(S_FotoNascimento),
                                El(S_1234), NoEl, El(S_1234)),
                          Block(NoEl, NoEl, NoEl, NoEl, El(S_1990), NoEl),
                          Block(El(S_LojaB), NoEl, El(S_LojaB), El(S_Abc), NoEl, El(S_Abc))>>,
       seller_like |-> <<>>, page_price |-> El(S_1234)],
      [seller_cards |-> <<>>,
       seller_like |-> <<Block(NoEl, El(S_LojaB), NoEl, NoEl, NoEl, El(S_Abc)),
                         Block(NoEl, NoEl, El(S_LojaB), NoEl, NoEl, El(S_1990))>>,
       page_price |-> El(S_Abc)] }

StringParts ==
    { <<>>,
      <<S_Oceano, S_EanLabel, S_EanShort, S_EanLong>>,
      <<S_EanShort>> }

Docs ==
    { [h1 |-> h.h1, testid |-> h.testid, scripts |-> sc, strings |-> st,
       seller_cards |-> sp.seller_cards, seller_like |-> sp.seller_like,
       page_price |-> sp.page_price]
      : h \in Headings, sc \in SeqsUpTo(LdScripts, MaxScripts),
        st \in StringParts, sp \in SellerParts }

ProductUrls == {S_Url1, S_Url2}

ExtractInit ==
    /\ extraction \in [pc : {"in"}, html : Docs, url : ProductUrls, data : {<<>>}]
    /\ strategy = [pc |-> "off"]
    /\ OrchIdle

\* extract_from_json_ld on its own
ExtractJsonLd ==
    /\ extraction.pc = "in"
    /\ extraction' = [extraction EXCEPT !.pc = "json_ld",
                                        !.data = extract_from_json_ld(extraction.html)]
    /\ UNCHANGED <<orch, strategy>>

ParseProductDetail ==
    /\ extraction.pc = "in"
    /\ extraction' = [extraction EXCEPT !.pc = "parsed",
                         !.data = parse_product_detail(extraction.html, extraction.url)]
    /\ UNCHANGED <<orch, strategy>>

ExtractNext == ExtractJsonLd \/ ParseProductDetail

SpecExtract == ExtractInit /\ [][ExtractNext]_vars

S_Base == <<"h","t","t","p","s",":","/","/","w","w","w",".","m","a","r","t","i","n","s","a","t","a","c","a","d","o",".","c","o","m",".","b","r">>
S_BuscaPath == <<"/","b","u","s","c","a","/">>
S_BuscaQuery == <<"/","b","u","s","c","a","?","q","=">>
S_Http == <<"h","t","t","p">>
S_RelHref == <<"/","p","r","o","d","u","t","o","/","1","2","3","4","5">>
S_Ean1 == <<"7","8","9","1","2","3","4","5","6","7","8","9","0">>
S_Ean2 == <<"7","9","0","8","1","5","6","9","0","4","7","0","4">>
S_Ean1Pad == <<" ","7","8","9","1","2","3","4","5","6","7","8","9","0"," ">>
S_9500 == <<"9","5",",","0","0">>
S_TituloPad == <<" ","C","a","m","e","r","a"," ","X"," ">>
S_SkuPad == <<"A","-","1"," ">>

(***************************************************************************)
(* The page fetches and the batch endpoints.                               *)
(*                                                                         *)
(* The environment decides, at each call, whether get_page() and           *)
(* page.close() raise, whether the try block (page.goto, page.content and  *)
(* the parsing) raises, and which document the page holds.                 *)
(***************************************************************************)
E_GetPage == "get_page() raised"
E_Close == "page.close() raised"
E_Try == "page.goto() raised"
E_NotFoundEans == "Produto nao encontrado na busca."
E_NotFoundLista == "Produto nao encontrado na busca"
E_EanVazio == "EAN vazio"

Value(v) == [kind |-> "value", v |-> v]
Raise(msg) == [kind |-> "raise", msg |-> msg]
NoPending == [kind |-> "none"]

base_urls(ean) == <<S_Base \o S_BuscaPath \o ean, S_Base \o S_BuscaQuery \o ean>>

\* What the try block of find_first_product_url_from_search leaves for
\* after the finally: outcome is [kind |-> "raise"] or [kind |-> "doc",
\* first |-> the first a[href*='/produto/'] of the page, with its href].
search_pending_propagate(outcome) ==
    IF outcome.kind = "raise" THEN [kind |-> "raise", msg |-> E_Try]
    ELSE IF outcome.first # NoEl /\ Truthy(outcome.first.href)
         THEN [kind |-> "return",
               v |-> IF StartsWith(outcome.first.href, S_Http)
                     THEN outcome.first.href ELSE S_Base \o outcome.first.href]
         ELSE [kind |-> "next"]

search_pending(outcome) ==
    IF outcome.kind = "raise" THEN [kind |-> "continue"]
    ELSE IF outcome.first # NoEl /\ Truthy(outcome.first.href)
         THEN [kind |-> "return",
               v |-> IF StartsWith(outcome.first.href, S_Http)
                     THEN outcome.first.href ELSE S_Base \o outcome.first.href]
         ELSE [kind |-> "next"]

\* What the try block of scrape_product_by_url leaves to return: outcome
\* is [kind |-> "raise", msg] or [kind |-> "doc", html].
scrape_pending(outcome, u, price) ==
    IF outcome.kind = "raise"
    THEN {[kind |-> "return", v |-> ("url" :> u) @@ ("erro" :> outcome.msg)]}
    ELSE {[kind |-> "return", v |-> r]
          : r \in enrich_with_strategy(parse_product_detail(outcome.html, u), price)}

\* The inputs of the requests.  A CSV row is the record of its columns EAN,
\* PRECO_ATUAL, TITULO and SKU (for "SKU PRINCIPAL"), "" where empty.
UrlInputs == {S_Url1, S_Url2}
EanInputs == {S_Ean1, S_Ean2}
RowInputs == [EAN : {S_Blank, S_Ean1Pad}, PRECO_ATUAL : {<<>>, S_9500},
              TITULO : {S_TituloPad}, SKU : {S_SkuPad}]

SearchOutcomes ==
    { [kind |-> "raise"],
      [kind |-> "doc", first |-> NoEl],
      [kind |-> "doc", first |-> [href |-> S_Url1]],
      [kind |-> "doc", first |-> [href |-> S_RelHref]] }

DocFull ==
    [h1 |-> [text |-> S_T1, title_class |-> FALSE], testid |-> NoEl,
     scripts |-> <<[kind |-> "dict", item |-> LdP1]>>, strings |-> <<>>,
     seller_cards |-> <<Block(El(S_FotoNascimento), NoEl, El(S_FotoNascimento),
                              El(S_1234), NoEl, El(S_1234)),
                        Block(NoEl, NoEl, NoEl, NoEl, El(S_1990), NoEl)>>,
     seller_like |-> <<>>, page_price |-> El(S_1234)]
DocBare ==
    [h1 |-> NoEl, testid |-> NoEl, scripts |-> <<>>, strings |-> <<>>,
     seller_cards |-> <<>>, seller_like |-> <<>>, page_price |-> NoEl]

PageOutcomes ==
    { [kind |-> "raise", msg |-> E_Try],
      [kind |-> "doc", html |-> DocFull],
      [kind |-> "doc", html |-> DocBare] }

\* the locals of the current item
IsUrls == op = "comparar_urls"
IsEans == op = "comparar_por_eans"
IsLista == op = "comparar_lista_interna"
RowEan(row) == Strip(row.EAN)
RowPrice(row) == to_float(row.PRECO_ATUAL)
RowTitulo(row) == Strip(row.TITULO)
RowSku(row) == Strip(row.SKU)
CurEan == IF IsLista THEN RowEan(inputs[idx]) ELSE inputs[idx]

Init ==
    /\ OrchIdle
    /\ strategy = [pc |-> "off"]
    /\ extraction = [pc |-> "off"]

CallCompararUrls ==
    /\ status = "idle"
    /\ \E urls \in SeqsUpTo(UrlInputs, MaxItems) : inputs' = urls
    /\ op' = "comparar_urls"
    /\ status' = "running"
    /\ pc' = "for"
    /\ UNCHANGED <<idx, out, cand, scrape_url, scrape_price, ret, pending,
                   open_pages, slept, tried, strategy, extraction>>

CallCompararPorEans ==
    /\ status = "idle"
    /\ \E eans \in SeqsUpTo(EanInputs, MaxItems) : inputs' = eans
    /\ op' = "comparar_por_eans"
    /\ status' = "running"
    /\ pc' = "for"
    /\ UNCHANGED <<idx, out, cand, scrape_url, scrape_price, ret, pending,
                   open_pages, slept, tried, strategy, extraction>>

\* load_csv() succeeds and gives the rows
CallCompararListaInterna ==
    /\ status = "idle"
    /\ \E df \in SeqsUpTo(RowInputs, MaxItems) : inputs' = df
    /\ op' = "comparar_lista_interna"
    /\ status' = "running"
    /\ pc' = "for"
    /\ UNCHANGED <<idx, out, cand, scrape_url, scrape_price, ret, pending,
                   open_pages, slept, tried, strategy, extraction>>

\* load_csv() raises FileNotFoundError: HTTPException(400)
CallListaCsvMissing ==
    /\ status = "idle"
    /\ op' = "comparar_lista_interna"
    /\ status' = "http_400"
    /\ pc' = "done"
    /\ UNCHANGED <<inputs, idx, out, cand, scrape_url, scrape_price, ret, pending,
                   open_pages, slept, tried, strategy, extraction>>

\* the for loop is over: return out
ReturnOut ==
    /\ status = "running"
    /\ pc = "for"
    /\ idx > Len(inputs)
    /\ status' = "returned"
    /\ pc' = "done"
    /\ UNCHANGED <<op, inputs, idx, out, cand, scrape_url, scrape_price, ret, pending,
                   open_pages, slept, tried, strategy, extraction>>

\* comparar_urls: rec = scrape_product_by_url(url)
UrlsItem ==
    /\ status = "running" /\ IsUrls
    /\ pc = "for"
    /\ idx <= Len(inputs)
    /\ scrape_url' = inputs[idx]
    /\ scrape_price' = NoneNum
    /\ pc' = "s_sleep"
    /\ UNCHANGED <<op, inputs, idx, out, status, cand, ret, pending,
                   open_pages, slept, tried, strategy, extraction>>

\* comparar_por_eans: prod_url = find_first_product_url_from_search(ean)
EansItem ==
    /\ status = "running" /\ IsEans
    /\ pc = "for"
    /\ idx <= Len(inputs)
    /\ cand' = 1
    /\ tried' = <<>>
    /\ pc' = "r_for"
    /\ UNCHANGED <<op, inputs, idx, out, status, scrape_url, scrape_price, ret, pending,
                   open_pages, slept, strategy, extraction>>

\* comparar_lista_interna: the row's fields, the empty-EAN short circuit,
\* else prod_url = find_first_product_url_from_search(ean)
ListaItem ==
    /\ status = "running" /\ IsLista
    /\ pc = "for"
    /\ idx <= Len(inputs)
    /\ LET row == inputs[idx]
       IN  IF RowEan(row) = <<>>
           THEN /\ out' = Append(out, ("sku" :> RowSku(row)) @@ ("titulo" :> RowTitulo(row))
                                      @@ ("erro" :> E_EanVazio))
                /\ idx' = idx + 1
                /\ UNCHANGED <<pc, cand, tried>>
           ELSE /\ cand' = 1
                /\ tried' = <<>>
                /\ pc' = "r_for"
                /\ UNCHANGED <<out, idx>>
    /\ UNCHANGED <<op, inputs, status, scrape_url, scrape_price, ret, pending,
                   open_pages, slept, strategy, extraction>>

(* find_first_product_url_from_search *)

\* for url in base_urls: sleep_rl()
R_Sleep ==
    /\ pc = "r_for"
    /\ cand <= Len(base_urls(CurEan))
    /\ slept' = TRUE
    /\ pc' = "r_get"
    /\ UNCHANGED <<op, inputs, idx, out, status, cand, scrape_url, scrape_price, ret,
                   pending, open_pages, tried, strategy, extraction>>

\* the loop is over: return None
R_ReturnNone ==
    /\ pc = "r_for"
    /\ cand > Len(base_urls(CurEan))
    /\ ret' = Value(NoneStr)
    /\ pc' = "resolved"
    /\ UNCHANGED <<op, inputs, idx, out, status, cand, scrape_url, scrape_price,
                   pending, open_pages, slept, tried, strategy, extraction>>

\* page = get_page(), outside the try: its exception leaves the function
R_GetPage ==
    /\ pc = "r_get"
    /\ \E ok \in BOOLEAN :
          IF ok
          THEN /\ open_pages' = open_pages + 1
               /\ pc' = "r_try"
               /\ UNCHANGED ret
          ELSE /\ ret' = Raise(E_GetPage)
               /\ pc' = "except"
               /\ UNCHANGED open_pages
    /\ UNCHANGED <<op, inputs, idx, out, status, cand, scrape_url, scrape_price,
                   pending, slept, tried, strategy, extraction>>

\* the try block: page.goto(url), page.content(), the search for the link
R_Try ==
    /\ pc = "r_try"
    /\ \E o \in SearchOutcomes :
          /\ pending' = search_pending(o)
          /\ tried' = Append(tried, [url |-> base_urls(CurEan)[cand], outcome |-> o])
    /\ slept' = FALSE
    /\ pc' = "r_finally"
    /\ UNCHANGED <<op, inputs, idx, out, status, cand, scrape_url, scrape_price, ret,
                   open_pages, strategy, extraction>>

R_Close_skipped_on_continue ==
    /\ pc = "r_finally"
    /\ open_pages' = IF pending.kind = "continue" THEN open_pages ELSE open_pages - 1
    /\ pending' = NoPending
    /\ \E ok \in BOOLEAN :
          IF ~ok /\ pending.kind # "continue"
          THEN ret' = Raise(E_Close) /\ pc' = "except" /\ UNCHANGED cand
          ELSE IF pending.kind = "return"
          THEN ret' = Value(pending.v) /\ pc' = "resolved" /\ UNCHANGED cand
          ELSE cand' = cand + 1 /\ pc' = "r_for" /\ UNCHANGED ret
    /\ UNCHANGED <<op, inputs, idx, out, status, scrape_url, scrape_price,
                   slept, tried, strategy, extraction>>

\* finally: page.close(); then the pending return, or the next candidate.
\* An exception of close() replaces a pending return or continue; an
\* exception still pending (none is, with except Exception above) goes on.
R_Close ==
    /\ pc = "r_finally"
    /\ open_pages' = open_pages - 1
    /\ pending' = NoPending
    /\ \E ok \in BOOLEAN :
          IF ~ok
          THEN ret' = Raise(E_Close) /\ pc' = "except" /\ UNCHANGED cand
          ELSE IF pending.kind = "raise"
          THEN ret' = Raise(pending.msg) /\ pc' = "except" /\ UNCHANGED cand
          ELSE IF pending.kind = "return"
          THEN ret' = Value(pending.v) /\ pc' = "resolved" /\ UNCHANGED cand
          ELSE cand' = cand + 1 /\ pc' = "r_for" /\ UNCHANGED ret
    /\ UNCHANGED <<op, inputs, idx, out, status, scrape_url, scrape_price,
                   slept, tried, strategy, extraction>>

\* back in the endpoint: if not prod_url, the not-found result; else
\* rec = scrape_product_by_url(prod_url[, my_price])
AfterResolve ==
    /\ pc = "resolved"
    /\ IF ~Truthy(ret.v)
       THEN /\ out' = Append(out,
                  IF IsEans
                  THEN ("ean" :> inputs[idx]) @@ ("erro" :> E_NotFoundEans)
                  ELSE ("sku" :> RowSku(inputs[idx])) @@ ("ean" :> RowEan(inputs[idx]))
                       @@ ("titulo" :> RowTitulo(inputs[idx]))
                       @@ ("preco_atual" :> RowPrice(inputs[idx]))
                       @@ ("erro" :> E_NotFoundLista))
            /\ idx' = idx + 1
            /\ pc' = "for"
            /\ UNCHANGED <<scrape_url, scrape_price>>
       ELSE /\ scrape_url' = ret.v
            /\ scrape_price' = IF IsLista THEN RowPrice(inputs[idx]) ELSE NoneNum
            /\ pc' = "s_sleep"
            /\ UNCHANGED <<out, idx>>
    /\ UNCHANGED <<op, inputs, status, cand, ret, pending,
                   open_pages, slept, tried, strategy, extraction>>

(* scrape_product_by_url *)

S_Sleep_skipped ==
    /\ pc = "s_sleep"
    /\ pc' = "s_get"
    /\ UNCHANGED <<op, inputs, idx, out, status, cand, scrape_url, scrape_price, ret,
                   pending, open_pages, slept, tried, strategy, extraction>>

\* sleep_rl()
S_Sleep ==
    /\ pc = "s_sleep"
    /\ slept' = TRUE
    /\ pc' = "s_get"
    /\ UNCHANGED <<op, inputs, idx, out, status, cand, scrape_url, scrape_price, ret,
                   pending, open_pages, tried, strategy, extraction>>

\* An exception leaving scrape_product_by_url: comparar_urls has no try
\* around the call, the other two endpoints catch it per item.
Propagate(msg) ==
    /\ ret' = Raise(msg)
    /\ IF IsUrls
       THEN status' = "raised" /\ pc' = "done"
       ELSE pc' = "except" /\ UNCHANGED status

\* page = get_page(), outside the try
S_GetPage ==
    /\ pc = "s_get"
    /\ \E ok \in BOOLEAN :
          IF ok
          THEN /\ open_pages' = open_pages + 1
               /\ pc' = "s_try"
               /\ UNCHANGED <<ret, status>>
          ELSE /\ Propagate(E_GetPage)
               /\ UNCHANGED open_pages
    /\ UNCHANGED <<op, inputs, idx, out, cand, scrape_url, scrape_price,
                   pending, slept, tried, strategy, extraction>>

\* the try block: page.goto(url), page.content(), parse_product_detail and
\* enrich_with_strategy; except Exception returns the error record
S_Try ==
    /\ pc = "s_try"
    /\ \E o \in PageOutcomes :
          \E p \in scrape_pending(o, scrape_url, scrape_price) : pending' = p
    /\ slept' = FALSE
    /\ pc' = "s_finally"
    /\ UNCHANGED <<op, inputs, idx, out, status, cand, scrape_url, scrape_price, ret,
                   open_pages, tried, strategy, extraction>>

\* finally: page.close(), then the pending return
S_Close ==
    /\ pc = "s_finally"
    /\ open_pages' = open_pages - 1
    /\ pending' = NoPending
    /\ \E ok \in BOOLEAN :
          IF ok
          THEN ret' = Value(pending.v) /\ pc' = "scraped" /\ UNCHANGED status
          ELSE Propagate(E_Close)
    /\ UNCHANGED <<op, inputs, idx, out, cand, scrape_url, scrape_price,
                   slept, tried, strategy, extraction>>

\* back in the endpoint with rec: the endpoint's fields, out.append(rec)
AfterScrape ==
    /\ pc = "scraped"
    /\ LET rec == ret.v
           ean == OrStr(Get(rec, "ean", NoneStr), CurEan)
       IN  out' = Append(out,
               IF IsUrls THEN rec
               ELSE IF IsEans THEN Put(rec, "ean", ean)
               ELSE Update(rec, ("sku" :> RowSku(inputs[idx])) @@ ("ean" :> ean)
                                @@ ("titulo" :> RowTitulo(inputs[idx]))
                                @@ ("preco_atual" :> RowPrice(inputs[idx]))))
    /\ idx' = idx + 1
    /\ pc' = "for"
    /\ UNCHANGED <<op, inputs, status, cand, scrape_url, scrape_price, ret, pending,
                   open_pages, slept, tried, strategy, extraction>>

\* except Exception as e, in comparar_por_eans and comparar_lista_interna
ItemExcept ==
    /\ pc = "except"
    /\ out' = Append(out,
           IF IsEans
           THEN ("ean" :> inputs[idx]) @@ ("erro" :> ret.msg)
           ELSE ("sku" :> RowSku(inputs[idx])) @@ ("ean" :> RowEan(inputs[idx]))
                @@ ("titulo" :> RowTitulo(inputs[idx]))
                @@ ("preco_atual" :> RowPrice(inputs[idx]))
                @@ ("erro" :> ret.msg))
    /\ idx' = idx + 1
    /\ pc' = "for"
    /\ UNCHANGED <<op, inputs, status, cand, scrape_url, scrape_price, ret, pending,
                   open_pages, slept, tried, strategy, extraction>>

Next ==
    \/ CallCompararUrls
    \/ CallCompararPorEans
    \/ CallCompararListaInterna
    \/ CallListaCsvMissing
    \/ ReturnOut
    \/ UrlsItem
    \/ EansItem
    \/ ListaItem
    \/ R_Sleep
    \/ R_ReturnNone
    \/ R_GetPage
    \/ R_Try
    \/ R_Close
    \/ AfterResolve
    \/ S_Sleep
    \/ S_GetPage
    \/ S_Try
    \/ S_Close
    \/ AfterScrape
    \/ ItemExcept

Spec == Init /\ [][Next]_vars

(***************************************************************************)
(* Properties of the endpoints and the fetches (checked under Spec).       *)
(***************************************************************************)
HasKeys(d, keys) == keys \subseteq DOMAIN d
HasLink(o) == o.kind = "doc" /\ o.first # NoEl
NoLinkIn(t) == \A j \in 1..Len(t) : ~HasLink(t[j].outcome)
InPageBlock == pc \in {"r_try", "r_finally", "s_try", "s_finally"}

\* C1 as stated: no exception leaves an endpoint (the missing CSV apart),
\* and an endpoint that has ended has one result per input, in input
\* order: the k-th result is about the k-th input.
C1_Original ==
    /\ status # "raised"
    /\ status = "returned" =>
          /\ Len(out) = Len(inputs)
          /\ \A j \in 1..Len(out) :
                /\ IsUrls => out[j]["url"] = inputs[j]
                /\ (IsEans /\ "erro" \in DOMAIN out[j]) => out[j]["ean"] = inputs[j]
                /\ IsLista => out[j]["sku"] = RowSku(inputs[j])

\* C2: a page is open only between its get_page() and the close() of its
\* finally block: none is open when the next one is acquired, none when
\* either function has returned or raised, none when the endpoint has
\* ended, and never more than one.
C2_PagesClosed ==
    /\ open_pages \in {0, 1}
    /\ open_pages = 1 <=> InPageBlock
    /\ pc \in {"r_get", "s_get"} => open_pages = 0
    /\ pc \in {"resolved", "scraped", "except"} => open_pages = 0
    /\ status \in {"returned", "raised", "http_400"} => open_pages = 0

\* a search fetch raised and its page was closed before the next candidate
C2_Witness ==
    /\ pc = "r_get"
    /\ cand = 2
    /\ tried[1].outcome.kind = "raise"
    /\ open_pages = 0

\* C3: sleep_rl() has run since the previous page.goto() whenever a
\* page.goto() is about to run, in the search and in the product fetch.
C3_DelayBeforeFetch ==
    pc \in {"r_try", "s_try"} => slept

\* the product page of an item is about to be fetched after that item's
\* search fetch, with a delay in between
C3_Witness ==
    /\ pc = "s_try"
    /\ ~IsUrls
    /\ tried # <<>>
    /\ slept

\* C4: the search fetches the candidates of base_urls in order, each at
\* most once; a candidate that raised or had no link is followed by the
\* next; the function returns the link of the first candidate that has one
\* without fetching a later one, and None only after all candidates gave
\* none; the exception of a failed fetch never leaves the function (only
\* one of get_page() or close() does).
C4_Resolver ==
    /\ pc \in {"r_for", "r_get", "r_try", "r_finally", "resolved"} =>
          /\ Len(tried) <= Len(base_urls(CurEan))
          /\ \A j \in 1..Len(tried) : tried[j].url = base_urls(CurEan)[j]
          /\ NoLinkIn(SubSeq(tried, 1, Len(tried) - 1))
    /\ pc \in {"r_for", "r_get", "r_try"} =>
          /\ Len(tried) = cand - 1
          /\ NoLinkIn(tried)
    /\ pc = "resolved" =>
          IF Truthy(ret.v)
          THEN /\ tried # <<>>
               /\ HasLink(tried[Len(tried)].outcome)
               /\ ret.v = S_Url1
          ELSE /\ ret.v = NoneStr
               /\ Len(tried) = Len(base_urls(CurEan))
               /\ NoLinkIn(tried)
    /\ pc = "except" => ret.msg \in {E_GetPage, E_Close}

\* the first candidate's fetch raised, the second had the link
C4_Witness ==
    /\ pc = "resolved"
    /\ Len(tried) = 2
    /\ tried[1].outcome.kind = "raise"
    /\ tried[2].url = S_Base \o S_BuscaQuery \o CurEan
    /\ HasLink(tried[2].outcome)
    /\ ret.v = S_Url1

\* C6 as stated: every result of the catalog run has the sku, the title
\* and the own price of its row (a result without the preco_atual key
\* reads as a null price, as it does once serialised).
C6_Original ==
    IsLista =>
        \A j \in 1..Len(out) :
            /\ HasKeys(out[j], {"sku", "titulo"})
            /\ out[j]["sku"] = RowSku(inputs[j])
            /\ out[j]["titulo"] = RowTitulo(inputs[j])
            /\ Get(out[j], "preco_atual", NoneNum) = RowPrice(inputs[j])

(***************************************************************************)
(* Properties of the pricing strategy (checked under SpecPricing).         *)
(***************************************************************************)
PricingDone == strategy.pc = "out"
InOffers == strategy.rec.sellers
MinPrice(offers) == CHOOSE m \in {offers[i].price : i \in 1..Len(offers)} :
                        \A i \in 1..Len(offers) : m <= offers[i].price
FirstAt(offers, m) == CHOOSE i \in 1..Len(offers) :
                          /\ offers[i].price = m
                          /\ \A j \in 1..(i - 1) : offers[j].price # m
CheapestIsAlvo == normalize(InOffers[FirstAt(InOffers, MinPrice(InOffers))].seller) = ALVO_SELLER

ExampleOffers == <<[seller |-> S_LojaB, price |-> 10000], [seller |-> S_LojaB, price |-> 9000]>>

\* C5: for a non-empty offer set with cheapest price c and own price p, with
\* target one of the values of round(c * (1 - gap), 2): p null gives a null
\* suggestion with the NO_OWN_PRICE text; p > target gives target with the
\* UNDERCUT text; otherwise (p = target included) p with the
\* ALREADY_COMPETITIVE text.  Offers 100.00 and 90.00 give 89.10 for
\* p = 95.00 and 85.00 for p = 85.00.
C5_Suggestion ==
    (PricingDone /\ InOffers # <<>>) =>
        LET p == strategy.my_price
            sug == strategy.rec["sugestao_preco"]
            txt == strategy.rec["comentario"][2]
        IN  /\ \E target \in RoundCents(MinPrice(InOffers)) :
                 /\ p = NoneNum => (sug = NoneNum /\ txt = C_NoOwnPrice)
                 /\ (p # NoneNum /\ p > target) => (sug = target /\ txt = C_Undercut)
                 /\ (p # NoneNum /\ p <= target) => (sug = p /\ txt = C_Competitive)
            /\ (InOffers = ExampleOffers /\ p = 9500) => sug = 8910
            /\ (InOffers = ExampleOffers /\ p = 8500) => sug = 8500

\* the example of C5, undercut case, and own price equal to the target
C5_Witness ==
    /\ PricingDone
    /\ InOffers = ExampleOffers
    /\ strategy.my_price = 8910
    /\ strategy.rec["sugestao_preco"] = 8910
    /\ strategy.rec["comentario"][2] = C_Competitive

\* C7 as stated: with no offers or no own price the comentario is exactly
\* the NO_OFFERS / NO_OWN_PRICE text, without the reference-competitor
\* prefix.
C7_Original ==
    PricingDone =>
        /\ InOffers = <<>> => strategy.rec["comentario"] = Comentario("", C_NoSellers)
        /\ (InOffers # <<>> /\ strategy.my_price = NoneNum) =>
               strategy.rec["comentario"] = Comentario("", C_NoOwnPrice)

\* C7 amended: with no offers the comentario is exactly the NO_OFFERS text
\* and the suggestion is null; with offers and no own price the suggestion
\* is null and the comentario is the NO_OWN_PRICE text, prefixed by the
\* reference-competitor sentence exactly when the cheapest seller's
\* normalized name equals ALVO_SELLER.
C7_Amended ==
    PricingDone =>
        /\ InOffers = <<>> =>
               /\ strategy.rec["comentario"] = Comentario("", C_NoSellers)
               /\ strategy.rec["sugestao_preco"] = NoneNum
               /\ strategy.rec["mais_barato"] = NoneDict
        /\ (InOffers # <<>> /\ strategy.my_price = NoneNum) =>
               /\ strategy.rec["sugestao_preco"] = NoneNum
               /\ strategy.rec["comentario"] =
                      Comentario(IF CheapestIsAlvo THEN C_AlvoPrefix ELSE "", C_NoOwnPrice)

C7_Witness ==
    /\ PricingDone
    /\ InOffers # <<>>
    /\ strategy.my_price = NoneNum
    /\ CheapestIsAlvo
    /\ strategy.rec["comentario"] = Comentario(C_AlvoPrefix, C_NoOwnPrice)

\* C10: for a non-empty offer sequence mais_barato has the minimum price
\* and is the first offer of that price in insertion order.
C10_CheapestFirstSeen ==
    (PricingDone /\ InOffers # <<>>) =>
        /\ strategy.rec["mais_barato"].price = MinPrice(InOffers)
        /\ strategy.rec["mais_barato"] = InOffers[FirstAt(InOffers, MinPrice(InOffers))]

\* two offers tie on the minimum price, under different names, after a
\* dearer one
C10_Witness ==
    /\ PricingDone
    /\ Len(InOffers) = 3
    /\ InOffers[1].price > InOffers[2].price
    /\ InOffers[2].price = InOffers[3].price
    /\ InOffers[2].seller # InOffers[3].seller
    /\ strategy.rec["mais_barato"] = InOffers[2]

(***************************************************************************)
(* Properties of the extraction (checked under SpecExtract).               *)
(***************************************************************************)
RECURSIVE FlatItems(_)
FlatItems(scripts) ==
    IF scripts = <<>> THEN <<>>
    ELSE (CASE Head(scripts).kind = "bad" -> <<>>
            [] Head(scripts).kind = "dict" -> <<Head(scripts).item>>
            [] Head(scripts).kind = "list" -> Head(scripts).items)
         \o FlatItems(Tail(scripts))

\* the Product/Offer blocks of the document, in document order
AcceptedBlocks == SelectSeq(FlatItems(extraction.html.scripts), IsProductOrOffer)
Holders(k) == {i \in 1..Len(AcceptedBlocks) : k \in DOMAIN AcceptedBlocks[i].d}
EarliestWith(k) == AcceptedBlocks[CHOOSE i \in Holders(k) : \A j \in Holders(k) : i <= j].d[k]
LatestWith(k) == AcceptedBlocks[CHOOSE i \in Holders(k) : \A j \in Holders(k) : i >= j].d[k]

MergedName == Get(extract_from_json_ld(extraction.html), "name", NoneStr)
HeadingText ==
    IF extraction.html.h1 # NoEl THEN Strip(extraction.html.h1.text)
    ELSE IF extraction.html.testid # NoEl THEN Strip(extraction.html.testid.text)
    ELSE NoneStr

C9_Original ==
    extraction.pc = "json_ld" =>
        \A k \in DOMAIN extraction.data : extraction.data[k] = EarliestWith(k)

\* C9 amended: the blocks are merged left to right with dict.update, so a
\* key present in several Product/Offer blocks takes the value of the
\* latest block in document order; the merged keys are the union of the
\* blocks' keys.
C9_Amended ==
    extraction.pc = "json_ld" =>
        /\ DOMAIN extraction.data =
              UNION {DOMAIN AcceptedBlocks[i].d : i \in 1..Len(AcceptedBlocks)}
        /\ \A k \in DOMAIN extraction.data : extraction.data[k] = LatestWith(k)

\* two blocks disagree on the name and the later one's name is kept
C9_Witness ==
    /\ extraction.pc = "json_ld"
    /\ Cardinality(Holders("name")) >= 2
    /\ EarliestWith("name") # LatestWith("name")
    /\ extraction.data["name"] = LatestWith("name")

=============================================================================
